---- MODULE Spec2Model ----
(***************************************************************************)
(* A model of package waitloop (src/waitloop.go): the Loop dispatcher, its *)
(* two inbound channels, the termination channel, the cleanup ticker, the  *)
(* caller-side operations Wait / WaitTTL / Send / Terminate and the        *)
(* delivery goroutines spawned by processEvent, cleanup, terminate and     *)
(* WaitTTL.                                                                *)
(***************************************************************************)
EXTENDS Integers, Sequences, FiniteSets, TLC

\* ------------------------------------------------------------------ bounds
\* Number of Wait/WaitTTL calls, Send calls, Terminate calls, and the last
\* instant of the clock.
MaxListeners == 2
MaxSends == 1
MaxTerminates == 3
MaxTime == 3

\* ------------------------------------------------- LoopOptions of the loop
\* The loop under study is NewCustom(&LoopOptions{IncomingChannelSize: 1,
\* ListenerChannelSize: 1, TTL: 2, CleanupInteval: 2}).
IncomingChannelSize == 1
ListenerChannelSize == 1
TTL == 2
CleanupInteval == 2

Keys == {"a", "b"}
\* ttl arguments handed to WaitTTL: one shorter than the loop's TTL, and the TTL
TTLArgs == {1, TTL}

Lids == 1..MaxListeners
Sids == 1..MaxSends
Tids == 1..MaxTerminates

ErrNil == "nil"
ErrLoopTerminated == "loop was terminated"
ErrTimedOut == "wait timed out"

VARIABLES
  listenerMap,        \* Loop.listenerMap: key -> sequence of listeners
  terminated,         \* Loop.terminated
  terminateChan,      \* number of signals buffered in Loop.terminateChan
  incomingEvents,     \* Loop.incomingEvents (buffered channel), send ids
  incomingListeners,  \* Loop.incomingListeners (buffered channel), listener ids
  tickPending,        \* a tick is buffered in cleanupTicker.C
  now,                \* time.Now()
  pc,                 \* Loop.run: "run", "done" (returned) or "dead" (panicked)
  panicking,          \* some goroutine has panicked; the process is going down
  crashed,            \* the process has exited after a panic
  lpc,                \* each Wait/WaitTTL call: "idle", "enq", "ret"
  lkey, lexp,         \* listener.Key, listener.Expiration
  received,           \* per listener channel: the Events read from it
  closed,             \* per listener channel: closed
  deliveries,         \* the delivery goroutines still running
  spc, skey,          \* each Send call: "idle", "enq", "ret"; Event.Key
  tpc,                \* each Terminate call: "idle", "ret"
  \* history (observation only; never read by an action's guard or effect). obs
  \* names the group of history variables a specification records: "ttl",
  \* "send", "terminate", "order" or "none"; the others keep their initial value.
  obs,
  ttlArg,             \* the ttl argument of the latest WaitTTL call
  lAfterTerminate,    \* a Terminate call had returned when the Wait call started
  retBeforeTerminate, \* the Wait calls that had returned when Terminate was first called
  sAfterTerminated,   \* terminated was already true when the Send call started
  sRetListeners,      \* the Wait calls that had returned when the Send call started
  processed,          \* the Send calls whose event processEvent has handled
  skipped,            \* listeners processEvent skipped as expired
  dequeued,           \* the listeners in the order run received their registrations
  lastStarted         \* the listeners of the latest event, in the order of their go statements

cvars == <<listenerMap, terminated, terminateChan, incomingEvents, incomingListeners,
           tickPending, now, pc, panicking, crashed>>
lvars == <<lpc, lkey, lexp, received, closed, deliveries>>
svars == <<spc, skey, tpc>>
hvars == <<obs, ttlArg, lAfterTerminate, retBeforeTerminate,
           sAfterTerminated, sRetListeners, processed, skipped, dequeued, lastStarted>>
vars == <<cvars, lvars, svars, hvars>>

\* map[string][]listener{}
EmptyMap == [k \in {} |-> << >>]

\* Event{Key, Data, Error}; a user event's Data is the id of its Send call, a
\* synthetic event's Data is nil (0)
Event(k, d, e) == [key |-> k, data |-> d, err |-> e]

\* ------------------------------------------------------------- NewCustom
InitState ==
  /\ listenerMap = EmptyMap
  /\ terminated = FALSE
  /\ terminateChan = 0
  /\ incomingEvents = << >>
  /\ incomingListeners = << >>
  /\ tickPending = FALSE
  /\ now = 0
  /\ pc = "run"
  /\ panicking = FALSE
  /\ crashed = FALSE
  /\ lpc = [l \in Lids |-> "idle"]
  /\ lkey = [l \in Lids |-> "a"]
  /\ lexp = [l \in Lids |-> 0]
  /\ received = [l \in Lids |-> << >>]
  /\ closed = [l \in Lids |-> FALSE]
  /\ deliveries = {}
  /\ spc = [s \in Sids |-> "idle"]
  /\ skey = [s \in Sids |-> "a"]
  /\ tpc = [t \in Tids |-> "idle"]
  /\ ttlArg = TTL
  /\ lAfterTerminate = [l \in Lids |-> FALSE]
  /\ retBeforeTerminate = {}
  /\ sAfterTerminated = [s \in Sids |-> FALSE]
  /\ sRetListeners = [s \in Sids |-> {}]
  /\ processed = {}
  /\ skipped = {}
  /\ dequeued = << >>
  /\ lastStarted = << >>

Init == InitState /\ obs = "none"
InitTTL == InitState /\ obs = "ttl"
InitSend == InitState /\ obs = "send"
InitTerminate == InitState /\ obs = "terminate"
InitOrder == InitState /\ obs = "order"

\* ---------------------------------------------------------- caller side
\* An unsynchronised read of Loop.terminated by a caller goroutine. The field is
\* written by the run goroutine with no happens-before edge to the caller, so a
\* read made after the write may still observe the initial false.
ReadTerminated == IF terminated THEN {TRUE, FALSE} ELSE {FALSE}

\* The goroutine started by go func() { ch <- ev; close(ch) }(): ks is the set of
\* values the Key of the event may take when the goroutine builds it.
Goroutine(l, ks, d, e) == [lis |-> l, keys |-> ks, data |-> d, err |-> e, stage |-> "send"]

\* WaitTTL, lines 102-107 and the else branch 110-115: build the listener, read
\* terminated, and either go on to the channel send or start the goroutine that
\* hands back ErrLoopTerminated.
WaitTTL(l, key, ttl) ==
  /\ ~crashed
  /\ lpc[l] = "idle"
  /\ \A x \in Lids : x < l => lpc[x] # "idle"
  /\ lkey' = [lkey EXCEPT ![l] = key]
  /\ lexp' = [lexp EXCEPT ![l] = now + TTL]
  /\ ttlArg' = IF obs = "ttl" THEN ttl ELSE ttlArg
  /\ lAfterTerminate' = IF obs = "terminate"
                      THEN [lAfterTerminate EXCEPT ![l] = \E t \in Tids : tpc[t] = "ret"]
                      ELSE lAfterTerminate
  /\ \E seen \in ReadTerminated :
       IF ~seen
       THEN /\ lpc' = [lpc EXCEPT ![l] = "enq"]
            /\ UNCHANGED deliveries
       ELSE /\ lpc' = [lpc EXCEPT ![l] = "ret"]
            /\ deliveries' = deliveries \cup {Goroutine(l, {key}, 0, ErrLoopTerminated)}
  /\ UNCHANGED <<cvars, received, closed, svars, obs, retBeforeTerminate,
                 sAfterTerminated, sRetListeners, processed, skipped, dequeued,
                 lastStarted>>

\* Wait(key) is WaitTTL(key, l.defaultTTL)
Wait(l, key) == WaitTTL(l, key, TTL)

\* WaitTTL, line 108: l.incomingListeners <- lis, which blocks while the buffer
\* is full, and the return of the channel.
WaitEnqueue(l) ==
  /\ ~crashed
  /\ lpc[l] = "enq"
  /\ Len(incomingListeners) < ListenerChannelSize
  /\ incomingListeners' = Append(incomingListeners, l)
  /\ lpc' = [lpc EXCEPT ![l] = "ret"]
  /\ UNCHANGED <<listenerMap, terminated, terminateChan, incomingEvents, tickPending,
                 now, pc, panicking, crashed, lkey, lexp, received, closed,
                 deliveries, svars, hvars>>

\* Send, lines 120-122: read terminated; return at once when it is set.
Send(s, key) ==
  /\ ~crashed
  /\ spc[s] = "idle"
  /\ \A x \in Sids : x < s => spc[x] # "idle"
  /\ skey' = [skey EXCEPT ![s] = key]
  /\ IF obs = "send"
     THEN /\ sAfterTerminated' = [sAfterTerminated EXCEPT ![s] = terminated]
          /\ sRetListeners' = [sRetListeners EXCEPT ![s] = {l \in Lids : lpc[l] = "ret"}]
     ELSE UNCHANGED <<sAfterTerminated, sRetListeners>>
  /\ \E seen \in ReadTerminated :
       spc' = [spc EXCEPT ![s] = IF seen THEN "ret" ELSE "enq"]
  /\ UNCHANGED <<cvars, lvars, tpc, obs, ttlArg, lAfterTerminate, retBeforeTerminate,
                 processed, skipped, dequeued, lastStarted>>

\* Send, line 123: l.incomingEvents <- e, which blocks while the buffer is full.
SendEnqueue(s) ==
  /\ ~crashed
  /\ spc[s] = "enq"
  /\ Len(incomingEvents) < IncomingChannelSize
  /\ incomingEvents' = Append(incomingEvents, s)
  /\ spc' = [spc EXCEPT ![s] = "ret"]
  /\ UNCHANGED <<listenerMap, terminated, terminateChan, incomingListeners, tickPending,
                 now, pc, panicking, crashed, lvars, skey, tpc, hvars>>

\* Terminate, line 128: l.terminateChan <- struct{}{} on a channel of capacity 1,
\* which blocks while a signal is buffered.
Terminate(t) ==
  /\ ~crashed
  /\ tpc[t] = "idle"
  /\ \A x \in Tids : x < t => tpc[x] = "ret"
  /\ terminateChan < 1
  /\ terminateChan' = terminateChan + 1
  /\ tpc' = [tpc EXCEPT ![t] = "ret"]
  /\ IF obs = "terminate" /\ \A x \in Tids : tpc[x] = "idle"
     THEN retBeforeTerminate' = {l \in Lids : lpc[l] = "ret"}
     ELSE UNCHANGED retBeforeTerminate
  /\ UNCHANGED <<listenerMap, terminated, incomingEvents, incomingListeners, tickPending,
                 now, pc, panicking, crashed, lvars, spc, skey, obs, ttlArg, lAfterTerminate,
                 sAfterTerminated, sRetListeners, processed, skipped, dequeued,
                 lastStarted>>

\* ------------------------------------------------------------ dispatcher
\* delete(l.listenerMap, k)
DeleteKey(m, k) == [x \in DOMAIN m \ {k} |-> m[x]]

\* l.listenerMap[k] = s
SetKey(m, k, s) == [x \in DOMAIN m \cup {k} |-> IF x = k THEN s ELSE m[x]]

\* A registration that puts the listener at the front of its key's slice.
registerListener_prepend(m, lis) ==
  IF lkey[lis] \notin DOMAIN m
  THEN SetKey(m, lkey[lis], <<lis>>)
  ELSE SetKey(m, lkey[lis], <<lis>> \o m[lkey[lis]])

\* registerListener: append to the key's slice, creating it when absent
registerListener(m, lis) ==
  IF lkey[lis] \notin DOMAIN m
  THEN SetKey(m, lkey[lis], <<lis>>)
  ELSE SetKey(m, lkey[lis], Append(m[lkey[lis]], lis))

\* A lookup that ignores the event's key and takes the listeners of any key.
waiters_anyKey(m, key) == IF DOMAIN m # {} THEN m[CHOOSE k \in DOMAIN m : k # key \/ DOMAIN m = {key}] ELSE << >>

\* processEvent, line 156: waiters, ok := l.listenerMap[e.Key]
waiters(m, key) == IF key \in DOMAIN m THEN m[key] ELSE << >>

\* An expiry test that also counts the instant of expiry itself as expired.
expiredForEvent_inclusive(w) == lexp[w] <= now

\* processEvent, line 163: w.Expiration.Before(time.Now())
expiredForEvent(w) == lexp[w] < now

\* processEvent, lines 162-170: for _, w := range waiters starts one goroutine for
\* each listener that is not expired, in the order of the slice
eventTargetSeq(ws) == SelectSeq(ws, LAMBDA w : ~expiredForEvent(w))

\* the listeners that get a goroutine
eventTargets(ws) == {eventTargetSeq(ws)[i] : i \in 1..Len(eventTargetSeq(ws))}

\* An event that empties the whole mapping.
mapAfterEvent_clear(m, key) == EmptyMap

\* An event that leaves its key's listeners in the mapping.
mapAfterEvent_keep(m, key) == m

\* processEvent, lines 157-160: the mapping after the event
mapAfterEvent(m, key) == IF key \in DOMAIN m THEN DeleteKey(m, key) ELSE m

\* cleanup, line 176: time.Now().Before(Expiration) keeps the listener
expiredForCleanup(w) == ~(now < lexp[w])

\* s[:i] ++ s[j:] on 0-based Go indices, as a sequence
GoAppend(s, t) == s \o t
GoPrefix(s, i) == SubSeq(s, 1, i)
GoSuffix(s, i) == SubSeq(s, i + 1, Len(s))

\* cleanup, lines 175-185, for one key: i runs over the indices of the slice as it
\* was when the range started (n of them), while the body indexes and shrinks the
\* slice the map holds now; an index past its end panics. i is the 0-based index.
RECURSIVE cleanupSlice(_, _, _, _)
cleanupSlice(s, i, n, spawned) ==
  IF i >= n THEN [seq |-> s, spawned |-> spawned, panic |-> FALSE]
  ELSE IF i >= Len(s) THEN [seq |-> s, spawned |-> spawned, panic |-> TRUE]
  ELSE IF ~expiredForCleanup(s[i + 1]) THEN cleanupSlice(s, i + 1, n, spawned)
  ELSE cleanupSlice(GoAppend(GoPrefix(s, i), GoSuffix(s, i + 1)), i + 1, n,
                    Append(spawned, s[i + 1]))

\* terminate, lines 195-201, for one key: the goroutine's argument
\* l.listenerMap[k][i] panics past the end of the current slice; the slice becomes
\* append(s[:i], s[:i+1]...).
RECURSIVE terminateSlice(_, _, _, _)
terminateSlice(s, i, n, spawned) ==
  IF i >= n THEN [seq |-> s, spawned |-> spawned, panic |-> FALSE]
  ELSE IF i >= Len(s) THEN [seq |-> s, spawned |-> spawned, panic |-> TRUE]
  ELSE terminateSlice(GoAppend(GoPrefix(s, i), GoPrefix(s, i + 1)), i + 1, n,
                      Append(spawned, s[i + 1]))

\* The orders in which a range over the map may visit its keys.
KeyOrders(m) ==
  {o \in [1..Cardinality(DOMAIN m) -> DOMAIN m] :
     \A i, j \in DOMAIN o : i # j => o[i] # o[j]}

\* The outer loop of cleanup and terminate (for k := range l.listenerMap), keys
\* visited in order o from position j on: the mapping, the listeners a goroutine
\* was started for with the position of their key, whether the loop panicked and
\* the last position it reached. slice is cleanupSlice or terminateSlice by flush.
RECURSIVE rangeKeys(_, _, _, _, _)
rangeKeys(m, o, j, spawned, flush) ==
  IF j > Len(o) THEN [map |-> m, spawned |-> spawned, panic |-> FALSE, last |-> Len(o)]
  ELSE LET k == o[j]
           r == IF flush THEN terminateSlice(m[k], 0, Len(m[k]), << >>)
                         ELSE cleanupSlice(m[k], 0, Len(m[k]), << >>)
           sp == spawned \cup {<<r.spawned[x], j>> : x \in 1..Len(r.spawned)}
       IN IF r.panic
          THEN [map |-> SetKey(m, k, r.seq), spawned |-> sp, panic |-> TRUE, last |-> j]
          ELSE rangeKeys(IF Len(r.seq) = 0 THEN DeleteKey(m, k) ELSE SetKey(m, k, r.seq),
                         o, j + 1, sp, flush)

\* cleanup() and terminate() over the whole mapping
cleanup(m, o) == rangeKeys(m, o, 1, {}, FALSE)
terminate(m, o) == rangeKeys(m, o, 1, {}, TRUE)

\* The goroutines of cleanup and terminate build Event{Key: k, ...} from the range
\* variable k when they run: k is the key of their own iteration or, when the
\* variable is shared by the iterations, a key the loop reached later.
closureKeys(o, j, last) == {o[x] : x \in j..last}

syntheticGoroutines(r, o, e) ==
  {Goroutine(p[1], closureKeys(o, p[2], r.last), 0, e) : p \in r.spawned}

\* A run loop that goes back to its select after the termination case.
AfterHandler_keepRunning(panic, done) == IF panic THEN "dead" ELSE "run"

\* What a panic in the run goroutine, or the return of run, leaves of pc.
AfterHandler(panic, done) == IF panic THEN "dead" ELSE IF done THEN "done" ELSE "run"

\* run, case lis := <-l.incomingListeners
RunRegister ==
  /\ ~crashed /\ pc = "run"
  /\ Len(incomingListeners) > 0
  /\ listenerMap' = registerListener(listenerMap, Head(incomingListeners))
  /\ incomingListeners' = Tail(incomingListeners)
  /\ dequeued' = IF obs = "order" THEN Append(dequeued, Head(incomingListeners))
                                  ELSE dequeued
  /\ UNCHANGED <<terminated, terminateChan, incomingEvents, tickPending, now, pc,
                 panicking, crashed, lvars, svars, obs, ttlArg, lAfterTerminate,
                 retBeforeTerminate, sAfterTerminated, sRetListeners, processed,
                 skipped, lastStarted>>

\* run, case e := <-l.incomingEvents
RunEvent ==
  /\ ~crashed /\ pc = "run"
  /\ Len(incomingEvents) > 0
  /\ LET s == Head(incomingEvents)
         ws == waiters(listenerMap, skey[s])
     IN /\ listenerMap' = mapAfterEvent(listenerMap, skey[s])
        /\ deliveries' = deliveries \cup
             {Goroutine(w, {skey[s]}, s, ErrNil) : w \in eventTargets(ws)}
        /\ skipped' = skipped \cup
             {ws[i] : i \in {j \in 1..Len(ws) : expiredForEvent(ws[j])}}
        /\ processed' = processed \cup {s}
        /\ lastStarted' = IF obs = "order" THEN eventTargetSeq(ws) ELSE lastStarted
  /\ incomingEvents' = Tail(incomingEvents)
  /\ UNCHANGED <<terminated, terminateChan, incomingListeners, tickPending, now, pc,
                 panicking, crashed, lpc, lkey, lexp, received, closed, svars,
                 obs, ttlArg, lAfterTerminate, retBeforeTerminate,
                 sAfterTerminated, sRetListeners, dequeued>>

\* run, case <-l.cleanupTicker.C
RunCleanup ==
  /\ ~crashed /\ pc = "run"
  /\ tickPending
  /\ tickPending' = FALSE
  /\ \E o \in KeyOrders(listenerMap) :
       LET r == cleanup(listenerMap, o)
       IN /\ listenerMap' = r.map
          /\ deliveries' = deliveries \cup syntheticGoroutines(r, o, ErrTimedOut)
          /\ pc' = AfterHandler(r.panic, FALSE)
          /\ panicking' = (panicking \/ r.panic)
  /\ UNCHANGED <<terminated, terminateChan, incomingEvents, incomingListeners, now,
                 crashed, lpc, lkey, lexp, received, closed, svars, hvars>>

\* run, case <-l.terminateChan: terminated = true ends the loop, and run calls
\* terminate() before it returns.
RunTerminate ==
  /\ ~crashed /\ pc = "run"
  /\ terminateChan > 0
  /\ terminateChan' = terminateChan - 1
  /\ terminated' = TRUE
  /\ \E o \in KeyOrders(listenerMap) :
       LET r == terminate(listenerMap, o)
       IN /\ listenerMap' = r.map
          /\ deliveries' = deliveries \cup syntheticGoroutines(r, o, ErrLoopTerminated)
          /\ pc' = AfterHandler(r.panic, TRUE)
          /\ panicking' = (panicking \/ r.panic)
  /\ UNCHANGED <<incomingEvents, incomingListeners, tickPending, now, crashed, lpc,
                 lkey, lexp, received, closed, svars, hvars>>

\* ------------------------------------------------- goroutines, clock, panic
\* A delivery goroutine's capturedW.Channel <- e, met by the caller's receive. A
\* send on a closed channel panics.
GoSend(g) ==
  /\ ~crashed
  /\ g \in deliveries /\ g.stage = "send"
  /\ IF closed[g.lis]
     THEN /\ panicking' = TRUE
          /\ deliveries' = deliveries \ {g}
          /\ UNCHANGED received
     ELSE /\ \E k \in g.keys :
               /\ received' = [received EXCEPT ![g.lis] = Append(@, Event(k, g.data, g.err))]
               /\ deliveries' = (deliveries \ {g}) \cup
                                  {[g EXCEPT !.keys = {k}, !.stage = "close"]}
          /\ UNCHANGED panicking
  /\ UNCHANGED <<listenerMap, terminated, terminateChan, incomingEvents,
                 incomingListeners, tickPending, now, pc, crashed, lpc, lkey,
                 lexp, closed, svars, hvars>>

\* A delivery goroutine's close(capturedW.Channel). Closing a closed channel panics.
GoClose(g) ==
  /\ ~crashed
  /\ g \in deliveries /\ g.stage = "close"
  /\ deliveries' = deliveries \ {g}
  /\ closed' = [closed EXCEPT ![g.lis] = TRUE]
  /\ panicking' = (panicking \/ closed[g.lis])
  /\ UNCHANGED <<listenerMap, terminated, terminateChan, incomingEvents,
                 incomingListeners, tickPending, now, pc, crashed, lpc, lkey,
                 lexp, received, svars, hvars>>

\* Time passes; the ticker of NewCustom (line 86) puts a tick in its channel of
\* capacity 1 every CleanupInteval.
Tick ==
  /\ ~crashed
  /\ now < MaxTime
  /\ now' = now + 1
  /\ tickPending' = (tickPending \/ (now + 1) % CleanupInteval = 0)
  /\ UNCHANGED <<listenerMap, terminated, terminateChan, incomingEvents,
                 incomingListeners, pc, panicking, crashed, lvars, svars, hvars>>

\* An unrecovered panic ends the process, and every goroutine with it.
Crash ==
  /\ panicking /\ ~crashed
  /\ crashed' = TRUE
  /\ UNCHANGED <<listenerMap, terminated, terminateChan, incomingEvents,
                 incomingListeners, tickPending, now, pc, panicking, lvars, svars, hvars>>

Next ==
  \/ \E l \in Lids, k \in Keys : Wait(l, k)
  \/ \E l \in Lids, k \in Keys, ttl \in TTLArgs : WaitTTL(l, k, ttl)
  \/ \E l \in Lids : WaitEnqueue(l)
  \/ \E s \in Sids, k \in Keys : Send(s, k)
  \/ \E s \in Sids : SendEnqueue(s)
  \/ \E t \in Tids : Terminate(t)
  \/ RunRegister
  \/ RunEvent
  \/ RunCleanup
  \/ RunTerminate
  \/ \E g \in deliveries : GoSend(g)
  \/ \E g \in deliveries : GoClose(g)
  \/ Tick
  \/ Crash

Spec == Init /\ [][Next]_vars
SpecTTL == InitTTL /\ [][Next]_vars
SpecSend == InitSend /\ [][Next]_vars
SpecTerminate == InitTerminate /\ [][Next]_vars
SpecOrder == InitOrder /\ [][Next]_vars

\* ------------------------------------------------------------ vocabulary
GoroutinesFor(l) == {g \in deliveries : g.lis = l}
PendingWrites(l) == {g \in deliveries : g.lis = l /\ g.stage = "send"}
InMap(l) == \E k \in DOMAIN listenerMap : \E i \in 1..Len(listenerMap[k]) : listenerMap[k][i] = l
InQueue(l) == \E i \in 1..Len(incomingListeners) : incomingListeners[i] = l
Resolved(l) == Len(received[l]) = 1 /\ closed[l]
ResolvedWith(l, e) == Resolved(l) /\ received[l][1].err = e
\* run has returned, nothing is panicking, and no goroutine holds l's channel:
\* from here on nothing writes to it
Settled(l) == lpc[l] = "ret" /\ pc = "done" /\ ~panicking /\ GoroutinesFor(l) = {}
UserEventOf(s) == Event(skey[s], s, ErrNil)
HandedOrReceived(l, s) ==
  \/ Goroutine(l, {skey[s]}, s, ErrNil) \in deliveries
  \/ \E i \in 1..Len(received[l]) : received[l][i] = UserEventOf(s)
\* the step of run that takes an event off incomingEvents
EventStep == pc = "run" /\ incomingEvents # << >> /\ incomingEvents' = Tail(incomingEvents)

\* ----------------------------------------------------------------- claims
\* C1. At most one delivery: in every reachable state, for every listener the
\* number of Events already written to its channel plus the number of goroutines
\* about to write to it is at most one, whatever the source of the write
\* (processEvent, cleanup, terminate, or WaitTTL on a terminated loop).
C1_AtMostOneDelivery ==
  \A l \in Lids : Len(received[l]) + Cardinality(PendingWrites(l)) <= 1

\* C1 witness: one listener was resolved by a user event and, later, the sweep has
\* run and the termination flush has resolved another listener.
C1_Witness ==
  \E l1, l2 \in Lids :
    /\ l1 # l2
    /\ ResolvedWith(l1, ErrNil)
    /\ ResolvedWith(l2, ErrLoopTerminated)
    /\ pc = "done" /\ now >= CleanupInteval /\ ~tickPending

\* C2. Guaranteed resolution, in the form a finite run refutes: once run has
\* returned and no goroutine holds the channel of a listener whose Wait call
\* returned, that listener has been resolved (one Event received, channel closed).
C2_GuaranteedResolution ==
  \A l \in Lids : Settled(l) => Resolved(l)

\* C3. Wait then send: when Wait(K) had returned before Send(Event{K, d}) was
\* called, Terminate was never called and the listener's TTL has not elapsed, then
\* once the dispatcher has processed the event the listener has been handed it.
C3_WaitThenSend ==
  \A s \in processed : \A l \in sRetListeners[s] :
    (/\ lkey[l] = skey[s]
     /\ \A t \in Tids : tpc[t] = "idle"
     /\ now < lexp[l])
    => HandedOrReceived(l, s)

\* C4. Wait after terminate: a Wait call started after a Terminate call returned
\* ends resolved with ErrLoopTerminated, once run has returned and no goroutine
\* holds its channel.
C4_WaitAfterTerminate ==
  \A l \in Lids :
    (lAfterTerminate[l] /\ Settled(l)) => ResolvedWith(l, ErrLoopTerminated)

\* C5. Wait then terminate: a listener whose Wait call had returned when Terminate
\* was first called, with no Send for its key and its TTL not elapsed, ends
\* resolved with ErrLoopTerminated once run has returned and no goroutine holds
\* its channel.
C5_WaitThenTerminate ==
  \A l \in retBeforeTerminate :
    (/\ Settled(l)
     /\ \A s \in Sids : spc[s] # "idle" => skey[s] # lkey[l]
     /\ now < lexp[l])
    => ResolvedWith(l, ErrLoopTerminated)

\* C6. TTL override: the step of WaitTTL(key, ttl) that builds the listener sets
\* its expiry to the time of the call plus the ttl argument.
C6_TTLOverride ==
  [][\A l \in Lids : (lpc[l] = "idle" /\ lpc'[l] # "idle") => lexp'[l] = now + ttlArg']_vars

\* C7. Key isolation: every user event (nil Error) written to, or about to be
\* written to, a listener's channel is the event of a Send whose key is the key
\* the listener was registered with.
C7_KeyIsolation ==
  /\ \A l \in Lids : \A i \in 1..Len(received[l]) :
       received[l][i].err = ErrNil =>
         /\ received[l][i].key = lkey[l]
         /\ received[l][i].data \in Sids
         /\ skey[received[l][i].data] = lkey[l]
  /\ \A g \in deliveries :
       g.err = ErrNil => (g.keys = {lkey[g.lis]} /\ g.data \in Sids /\ skey[g.data] = lkey[g.lis])

\* C7 witness: listeners for two different keys were registered, an event for one
\* key was processed and received, and the listener of the other key is still
\* waiting in the mapping.
C7_Witness ==
  \E l1, l2 \in Lids :
    /\ lkey[l1] # lkey[l2]
    /\ ResolvedWith(l1, ErrNil)
    /\ InMap(l2) /\ received[l2] = << >>

\* C8. Fan-out: in the step in which run processes an event for key K while K is
\* in the mapping, K leaves the mapping and every listener of K that is not
\* expired is handed exactly that event (Key K, the Data sent, nil Error) by a
\* goroutine of its own, on a channel that is still open; and each step of such a
\* goroutine does its part: the write leaves exactly that event as the one Event
\* of the channel, the close leaves the channel closed.
C8_FanOut ==
  [][/\ EventStep =>
          LET s == Head(incomingEvents)
              K == skey[s]
          IN K \in DOMAIN listenerMap =>
               /\ K \notin DOMAIN listenerMap'
               /\ \A i \in 1..Len(listenerMap[K]) :
                    ~(lexp[listenerMap[K][i]] < now) =>
                      /\ Goroutine(listenerMap[K][i], {K}, s, ErrNil) \in deliveries'
                      /\ ~closed[listenerMap[K][i]]
     /\ \A g \in deliveries :
          (g.err = ErrNil /\ g \notin deliveries') =>
            /\ received'[g.lis] = <<UserEventOf(g.data)>>
            /\ IF g.stage = "send"
               THEN [g EXCEPT !.stage = "close"] \in deliveries'
               ELSE closed'[g.lis]]_vars

\* C8 witness: two listeners of one key have both received the same sent event and
\* had their channels closed.
C8_Witness ==
  \E l1, l2 \in Lids : \E s \in Sids :
    /\ l1 # l2
    /\ received[l1] = <<UserEventOf(s)>> /\ closed[l1]
    /\ received[l2] = <<UserEventOf(s)>> /\ closed[l2]

\* C9. Send after termination is a no-op: a Send call started when terminated was
\* already true does not go on to the channel send, its event is never in
\* incomingEvents, never processed and never handed to a listener.
C9_SendAfterTerminationNoOp ==
  \A s \in Sids :
    sAfterTerminated[s] =>
      /\ spc[s] # "enq"
      /\ \A i \in 1..Len(incomingEvents) : incomingEvents[i] # s
      /\ s \notin processed
      /\ \A l \in Lids : ~HandedOrReceived(l, s)

\* C10. Expired listeners skipped by an event are still timed out: a listener that
\* processEvent skipped as expired did not get the event, and either has been or
\* is being resolved with ErrTimedOut, or is still in the mapping for the sweep.
C10_SkippedStillTimedOut ==
  \A l \in skipped :
    /\ \A s \in Sids : ~HandedOrReceived(l, s)
    /\ \/ InMap(l)
       \/ \E g \in GoroutinesFor(l) : g.err = ErrTimedOut
       \/ \E i \in 1..Len(received[l]) : received[l][i].err = ErrTimedOut

\* C11. No leaked blocked callers on shutdown, in the form a finite run refutes:
\* once run has returned, no Wait/WaitTTL call is held at its send on a full
\* incomingListeners and no Send call is held at its send on a full incomingEvents
\* (nothing receives from either channel any more, so such a call never returns).
C11_NoLeakedBlockedCallers ==
  (pc = "done" /\ ~panicking) =>
    /\ \A l \in Lids : lpc[l] = "enq" => Len(incomingListeners) < ListenerChannelSize
    /\ \A s \in Sids : spc[s] = "enq" => Len(incomingEvents) < IncomingChannelSize

\* Position of listener l in the order run received the registrations (0: never)
DequeuedAt(l) ==
  IF \E i \in 1..Len(dequeued) : dequeued[i] = l
  THEN CHOOSE i \in 1..Len(dequeued) : dequeued[i] = l
  ELSE 0

\* s lists listeners run has received, earlier registrations first
InDequeueOrder(s) ==
  /\ \A i \in 1..Len(s) : DequeuedAt(s[i]) > 0
  /\ \A i, j \in 1..Len(s) : i < j => DequeuedAt(s[i]) < DequeuedAt(s[j])

\* C12. FIFO per key: every key's sequence in the mapping lists its listeners in
\* the order run dequeued their registrations, and the goroutines processEvent
\* starts for one event are started in that same order (L1's before L2's when L1
\* was registered before L2).
C12_FIFOPerKey ==
  /\ \A k \in DOMAIN listenerMap : InDequeueOrder(listenerMap[k])
  /\ InDequeueOrder(lastStarted)

\* an event reached two listeners of its key, the one of the later Wait call
\* having been registered, and so started, first
C12_Witness == lastStarted = <<2, 1>> /\ dequeued = <<2, 1>>

\* The step in which run takes the termination signal and flushes
FlushStep == terminateChan' < terminateChan

\* C13. Termination is one-way and happens once: terminated never goes back to
\* false; the termination signal is taken, and the flush run, only while terminated
\* is still false, and that step sets it, so there is no second flush however many
\* Terminate calls are made; once terminated is set the dispatcher has left its
\* loop and takes no further registration, event or tick and changes the mapping
\* no more.
C13_TerminationOnce ==
  [][ /\ terminated => terminated'
      /\ FlushStep => (~terminated /\ terminated' /\ pc = "run" /\ pc' # "run")
      /\ terminated =>
           /\ pc # "run" /\ pc' = pc
           /\ listenerMap' = listenerMap
           /\ Len(incomingListeners') >= Len(incomingListeners)
           /\ Len(incomingEvents') >= Len(incomingEvents)
           /\ tickPending => tickPending'
           /\ terminateChan' >= terminateChan ]_vars

\* a second Terminate call has returned after the flush: its signal stays in the
\* channel, and a registration and a tick stay untaken
C13_Witness ==
  /\ terminated /\ pc = "done" /\ ~panicking
  /\ tpc[2] = "ret" /\ terminateChan = 1
  /\ incomingListeners # << >> /\ tickPending

\* The listeners held in the mapping, over every key and position
MappedListeners(m) == UNION {{m[k][i] : i \in 1..Len(m[k])} : k \in DOMAIN m}

\* The goroutines started by the step for listener l with error e
StartedFor(l, e) == {g \in deliveries' \ deliveries : g.lis = l /\ g.err = e}

\* C14. Termination flush covers every mapped listener: in the step in which run
\* takes the termination signal, every listener in the mapping (every key, every
\* position) gets exactly one goroutine that hands it ErrLoopTerminated and closes
\* its channel, and terminate() runs to completion: run returns, nothing panics.
C14_FlushCoversAll ==
  [][ FlushStep =>
        /\ \A l \in MappedListeners(listenerMap) :
             Cardinality(StartedFor(l, ErrLoopTerminated)) = 1
        /\ pc' = "done"
        /\ panicking' = panicking ]_vars

\* The step in which run takes a tick and sweeps
SweepStep == pc = "run" /\ tickPending /\ ~tickPending'

\* C15. Sweep correctness: after a sweep step, for every key, the listeners whose
\* expiry has passed are out of the mapping and each has one goroutine that hands
\* it ErrTimedOut, the unexpired ones are still there in their order, no key is
\* left with an empty sequence, and cleanup() runs to completion.
C15_SweepCorrect ==
  [][ SweepStep =>
        /\ \A k \in DOMAIN listenerMap :
             LET kept == SelectSeq(listenerMap[k], LAMBDA w : ~expiredForCleanup(w))
             IN IF kept = << >> THEN k \notin DOMAIN listenerMap'
                ELSE k \in DOMAIN listenerMap' /\ listenerMap'[k] = kept
        /\ DOMAIN listenerMap' \subseteq DOMAIN listenerMap
        /\ \A l \in MappedListeners(listenerMap) :
             Cardinality(StartedFor(l, ErrTimedOut)) =
               IF expiredForCleanup(l) THEN 1 ELSE 0
        /\ pc' = "run"
        /\ panicking' = panicking ]_vars

\* C16. Mapping invariant: between dispatcher steps, every listener in the mapping
\* has had no delivery started (no goroutine for it, nothing written to or closed
\* on its channel), no key maps to an empty sequence, and once run has returned
\* after the flush the mapping is empty.
C16_MappingInvariant ==
  (pc \in {"run", "done"}) =>
    /\ \A l \in MappedListeners(listenerMap) :
         GoroutinesFor(l) = {} /\ received[l] = << >> /\ ~closed[l]
    /\ \A k \in DOMAIN listenerMap : listenerMap[k] # << >>
    /\ pc = "done" => DOMAIN listenerMap = {}

\* A step of a caller-side operation: a Wait/WaitTTL, Send or Terminate call moves
CallerStep == lpc' # lpc \/ spc' # spc \/ tpc' # tpc

\* C17. Single-owner state: the caller-side operations neither write nor read the
\* mapping and the terminated flag. A caller's step leaves both unchanged, and
\* what a call does is the same whatever the flag holds: every Wait/WaitTTL call
\* goes on to hand its listener to incomingListeners and starts no goroutine of
\* its own, and every Send call goes on to hand its event to incomingEvents.
C17_SingleOwner ==
  [][ CallerStep =>
        /\ listenerMap' = listenerMap
        /\ terminated' = terminated
        /\ \A l \in Lids : (lpc[l] = "idle" /\ lpc'[l] # "idle") =>
             (lpc'[l] = "enq" /\ deliveries' = deliveries)
        /\ \A s \in Sids : (spc[s] = "idle" /\ spc'[s] # "idle") =>
             spc'[s] = "enq" ]_vars

\* key k has the same sequence (or none) before and after the step
SameAt(k) ==
  /\ k \in DOMAIN listenerMap <=> k \in DOMAIN listenerMap'
  /\ k \in DOMAIN listenerMap => listenerMap'[k] = listenerMap[k]

\* the step of run that takes a registration off incomingListeners
RegisterStep ==
  pc = "run" /\ incomingListeners # << >> /\ incomingListeners' = Tail(incomingListeners)

\* C18. Frame of event processing and registration: processing an event for key K
\* leaves every other key's sequence unchanged; when K has no listeners the whole
\* mapping is unchanged and no delivery is started; the event is not retained: once
\* processed it reaches no further listener, so one registered for K afterwards is
\* not resolved by it; registering a listener for K changes only K's sequence, by
\* appending the listener at its end.
C18_Frame ==
  [][ /\ EventStep =>
           LET K == skey[Head(incomingEvents)]
           IN /\ \A k \in Keys \ {K} : SameAt(k)
              /\ K \notin DOMAIN listenerMap =>
                   (listenerMap' = listenerMap /\ deliveries' = deliveries)
      /\ \A s \in processed, l \in Lids :
           HandedOrReceived(l, s)' => HandedOrReceived(l, s)
      /\ RegisterStep =>
           LET l == Head(incomingListeners)
               K == lkey[l]
           IN /\ \A k \in Keys \ {K} : SameAt(k)
              /\ K \in DOMAIN listenerMap'
              /\ listenerMap'[K] = waiters(listenerMap, K) \o <<l>> ]_vars

\* an event was processed while another key had a listener registered, or before
\* it; a listener of the event's own key registered after it is in the mapping,
\* with nothing handed to it
C18_Witness ==
  \E s \in processed : \E l, l2 \in Lids :
    /\ lkey[l] = skey[s] /\ InMap(l) /\ received[l] = << >> /\ GoroutinesFor(l) = {}
    /\ lkey[l2] # skey[s] /\ InMap(l2)

\* C19. Terminate always returns, in the form a finite run refutes: a Terminate
\* call that is next to be made (the earlier calls, if any, have returned) is never
\* left with its channel send blocked for good, that is with a signal buffered in
\* terminateChan and run no longer receiving.
C19_TerminateReturns ==
  \A t \in Tids :
    (tpc[t] = "idle" /\ (\A x \in Tids : x < t => tpc[x] = "ret") /\ ~panicking /\ ~crashed)
      => (terminateChan < 1 \/ pc = "run")

\* C20. Synthetic events carry the listener's own key: every event with an error
\* (ErrTimedOut from the sweep, ErrLoopTerminated from the flush or from WaitTTL
\* after termination) that a listener's channel has delivered has Key equal to the
\* key the listener was registered with.
C20_SyntheticOwnKey ==
  \A l \in Lids : \A i \in 1..Len(received[l]) :
    received[l][i].err # ErrNil => received[l][i].key = lkey[l]

====
